---- MODULE Spec2Model ----
(***************************************************************************)
(* Model of the organic-molecule 3D visualizer (src/app.js) and of its     *)
(* PubChem client (src/unnamed/part_001): the Lewis-structure layout and   *)
(* draw pass, and the asynchronous molecule loading around it.             *)
(*                                                                         *)
(* Numbers.  JavaScript numbers are IEEE doubles.  The model uses exact    *)
(* integers: lengths in 1/1000 of a layout unit, angles in 1/1000 of a     *)
(* degree.  Math.cos / Math.sin are a table (exact to 1/1000) at the       *)
(* multiples of 6 degrees, which are all the candidate angles of up to 6   *)
(* electron domains.  Math.atan2 is computed by CORDIC to within a few     *)
(* thousandths of a degree.  Two angle differences that are closer than    *)
(* the rounding error are compared the way the variable fpLaterWins says:  *)
(* a double comparison of two mathematically equal differences is decided  *)
(* by rounding, the same way on every run, in a direction the model does   *)
(* not know.  Normalized canvas coordinates are exact rationals with one   *)
(* common denominator per axis pair.                                       *)
(***************************************************************************)
EXTENDS Integers, Sequences, FiniteSets, TLC

(***************************************************************************)
(* Generic helpers                                                         *)
(***************************************************************************)
Abs(v) == IF v < 0 THEN -v ELSE v

Max2(a, b) == IF a > b THEN a ELSE b

Min2(a, b) == IF a < b THEN a ELSE b

SetMax(S) == CHOOSE v \in S : \A w \in S : w <= v

SetMin(S) == CHOOSE v \in S : \A w \in S : v <= w

Range(s) == {s[i] : i \in DOMAIN s}

(***************************************************************************)
(* Angles: Math.PI, Math.cos, Math.sin, Math.atan2                         *)
(***************************************************************************)
\* Math.PI in thousandths of a degree
Pi == 180000

\* 1000 * cos of the multiples of 6 degrees in the first quadrant
CosQuarter ==
    <<1000, 995, 978, 951, 914, 866, 809, 743, 669, 588, 500, 407, 309, 208, 105, 0>>

\* the angle a reduced to [0, 2*Pi)
Mod360(a) == a % (2 * Pi)

\* 1000 * Math.cos(a); a is a multiple of 6 degrees
Cos(a) ==
    LET t == Mod360(a) \div 6000
    IN
    IF Mod360(a) % 6000 # 0 THEN CHOOSE v \in {} : TRUE
    ELSE IF t <= 15 THEN CosQuarter[t + 1]
    ELSE IF t <= 30 THEN -CosQuarter[30 - t + 1]
    ELSE IF t <= 45 THEN -CosQuarter[t - 30 + 1]
    ELSE CosQuarter[60 - t + 1]

\* 1000 * Math.sin(a)
Sin(a) == Cos(a - Pi \div 2)

\* atan(2^-i) for i = 0..13, in thousandths of a degree
AtanTab ==
    <<45000, 26565, 14036, 7125, 3576, 1790, 895, 448, 224, 112, 56, 28, 14, 7>>

RECURSIVE Pow2(_)
Pow2(i) == IF i = 0 THEN 1 ELSE 2 * Pow2(i - 1)

RECURSIVE Cordic(_, _, _, _)
\* CORDIC in vectoring mode: the angle of (x, y), x >= 0, added to z
Cordic(x, y, z, i) ==
    IF i >= Len(AtanTab) THEN z
    ELSE IF y = 0 THEN z
    ELSE IF y > 0
         THEN Cordic(x + y \div Pow2(i), y - x \div Pow2(i), z + AtanTab[i + 1], i + 1)
         ELSE Cordic(x - y \div Pow2(i), y + x \div Pow2(i), z - AtanTab[i + 1], i + 1)

\* v scaled by the factor that brings the magnitude m near 2^24
Scaled(v, m) ==
    IF m <= 16777216 THEN v * (16777216 \div m) ELSE v \div (m \div 16777216 + 1)

\* the angle of (dx, dy) from c, the angle of (|dx|, dy)
Quadrant(dy, dx, c) ==
    IF dx > 0 THEN c ELSE IF dy >= 0 THEN Pi - c ELSE -Pi - c

\* Math.atan2(dy, dx), in (-Pi, Pi]; Math.atan2(0, 0) is 0
Atan2(dy, dx) ==
    IF dx = 0 /\ dy = 0 THEN 0
    ELSE IF dx = 0 THEN (IF dy > 0 THEN Pi \div 2 ELSE -(Pi \div 2))
    ELSE IF dy = 0 THEN (IF dx > 0 THEN 0 ELSE Pi)
    ELSE Quadrant(dy, dx, Cordic(Scaled(Abs(dx), Max2(Abs(dx), Abs(dy))),
                                 Scaled(dy, Max2(Abs(dx), Abs(dy))), 0, 0))

(***************************************************************************)
(* State                                                                   *)
(***************************************************************************)
VARIABLES
    fpLaterWins,     \* how a double comparison of two equal differences rounds
    canvasSize,      \* <<width, height>> of the lewis-canvas element
    molecule,        \* layout runs: the molecule under study
    ctx,             \* the 2D context's persistent drawing state
    surface,         \* what the lewis canvas shows: the rendered primitives
    pass,            \* what the last drawLewisStructure pass was given and computed
    passes,          \* the number of drawLewisStructure passes run so far
    previous,        \* the molecule the pass before the last was given
    currentMolecule, \* this.currentMolecule
    viewStyle,       \* this.viewStyle
    scene,           \* what this.moleculeGroup holds: the 3D view
    loading,         \* TRUE while the #loading element is visible
    infoPanel,       \* the text of #molecule-name
    issued,          \* the loadMolecule calls so far: their arguments, in order
    status,          \* per call: "inflight", "resolved" or "rejected"
    pendingAtIssue,  \* per call: the calls in flight when it was made
    lastEvent,       \* the last event handled and which passes it ran
    traversal,       \* the while loop of computeVSEPRPositions, between iterations
    search           \* the search box: its text, debounce timer, requests, suggestions

canvasVars == <<ctx, surface, pass, passes, previous>>

appVars ==
    <<currentMolecule, viewStyle, scene, loading, infoPanel, issued, status,
      pendingAtIssue, lastEvent>>

vars == <<fpLaterWins, canvasSize, molecule, canvasVars, appVars, traversal, search>>

(***************************************************************************)
(* Molecular graph model (PubChemAPI.parseSDF, getCompoundInfo)            *)
(*   atoms    sequence of element symbols; atom i of the code (0-based) is *)
(*            atoms[i + 1]                                                 *)
(*   bonds    sequence of [from, to, order], from/to 0-based as parsed;    *)
(*            order 0 stands for a falsy order (missing, NaN or 0)         *)
(*   atoms2D  sequence of [x, y]                                           *)
(*   shape    "object", or "noAtoms" (no atoms property), or "null"        *)
(***************************************************************************)
NumAtoms(m) == Len(m.atoms)

AtomIdx(m) == 0 .. (NumAtoms(m) - 1)

\* molecule.atoms[i] is undefined
ValidIndex(m, i) == i \in AtomIdx(m)

\* drawLewisStructure's valenceElectrons table
valenceElectrons ==
    [e \in {"H", "C", "N", "O", "F", "Cl", "Br", "I", "S", "P", "B", "Si"} |->
        CASE e = "H" -> 1
          [] e \in {"C", "Si"} -> 4
          [] e \in {"N", "P"} -> 5
          [] e \in {"O", "S"} -> 6
          [] e \in {"F", "Cl", "Br", "I"} -> 7
          [] e = "B" -> 3]

\* a variant without the default for elements the table lacks
ValenceNoDefault(e) == IF e \in DOMAIN valenceElectrons THEN valenceElectrons[e] ELSE 0

\* valenceElectrons[element] || 4
Valence(e) == IF e \in DOMAIN valenceElectrons THEN valenceElectrons[e] ELSE 4

\* drawLewisStructure's elementColors table, elementColors[element] || '#ffffff'
ElementColor(e) ==
    CASE e = "C" -> "#888888"
      [] e = "H" -> "#ffffff"
      [] e = "O" -> "#ff4444"
      [] e = "N" -> "#4444ff"
      [] e = "S" -> "#ffff00"
      [] e = "P" -> "#ff8800"
      [] e = "F" -> "#00ff00"
      [] e = "Cl" -> "#00dd00"
      [] e = "Br" -> "#884400"
      [] e = "I" -> "#6600bb"
      [] OTHER -> "#ffffff"

\* what one bond pushes onto neighbors[i]: bond.to, then bond.from
Adjacent(b, i) ==
    (IF b.from = i THEN <<b.to>> ELSE <<>>) \o (IF b.to = i THEN <<b.from>> ELSE <<>>)

RECURSIVE NeighborList(_, _, _)
\* neighbors[i] after the first k bonds
NeighborList(bonds, i, k) ==
    IF k = 0 THEN <<>> ELSE NeighborList(bonds, i, k - 1) \o Adjacent(bonds[k], i)

\* the adjacency lists drawLewisStructure builds
Neighbors(m) == [i \in AtomIdx(m) |-> NeighborList(m.bonds, i, Len(m.bonds))]

\* bondOrders[i][j]: the order of the last bond between i and j, 0 if none
BondOrderOf(m, i, j) ==
    LET ks == {k \in 1 .. Len(m.bonds) :
                  \/ m.bonds[k].from = i /\ m.bonds[k].to = j
                  \/ m.bonds[k].from = j /\ m.bonds[k].to = i}
    IN  IF ks = {} THEN 0 ELSE m.bonds[SetMax(ks)].order

\* bondOrders[i][j] || 1
OrderOr1(order) == IF order = 0 THEN 1 ELSE order

RECURSIVE SumOrders(_, _, _, _)
\* neighbors[i].reduce((sum, j) => sum + (bondOrders[i][j] || 1), 0)
SumOrders(m, i, ns, k) ==
    IF k = 0 THEN 0
    ELSE SumOrders(m, i, ns, k - 1) + OrderOr1(BondOrderOf(m, i, ns[k]))

\* a variant that takes two electrons of the atom per bond order
LonePairsOfSharedPairs(valence, bondedElectrons) ==
    Max2(0, (valence - 2 * bondedElectrons) \div 2)

\* Math.max(0, Math.floor((valence - bondedElectrons) / 2))
LonePairs(valence, bondedElectrons) == Max2(0, (valence - bondedElectrons) \div 2)

\* one entry of atomInfo (bondedElectrons is a local of the code, kept here)
AtomInfoOf(element, valence, bondCount, bondedElectrons) ==
    [element         |-> element,
     valence         |-> valence,
     bondCount       |-> bondCount,
     bondedElectrons |-> bondedElectrons,
     lonePairs       |-> LonePairs(valence, bondedElectrons),
     totalDomains    |-> bondCount + LonePairs(valence, bondedElectrons)]

\* the atomInfo array
AtomInfo(m, neighbors) ==
    [i \in AtomIdx(m) |->
        AtomInfoOf(m.atoms[i + 1], Valence(m.atoms[i + 1]), Len(neighbors[i]),
                   SumOrders(m, i, neighbors[i], Len(neighbors[i])))]

\* a variant that starts from the right instead of from the top
getOptimalAnglesFromZero(n) ==
    IF n <= 0 THEN <<>>
    ELSE [j \in 1 .. n |-> (2 * Pi * (j - 1)) \div n]

\* getOptimalAngles(n): the array of n candidate angles; angles[i] of the
\* code is element i + 1 of the sequence
getOptimalAngles(n) ==
    IF n <= 0 THEN <<>>
    ELSE [j \in 1 .. n |-> -(Pi \div 2) + (2 * Pi * (j - 1)) \div n]

\* the wrapped difference of two angles as the code computes it
AngleDiff(a, b) ==
    LET diff == Abs(a - b)
    IN  IF diff > Pi THEN 2 * Pi - diff ELSE diff

\* a < b on doubles, for two angle differences: decided by the values when
\* they are further apart than the rounding error, by rounding otherwise
FloatLess(a, b) ==
    IF a + 50 < b THEN TRUE
    ELSE IF b + 50 < a THEN FALSE
    ELSE fpLaterWins

(***************************************************************************)
(* Position resolver, VSEPR fallback (computeVSEPRPositions)               *)
(***************************************************************************)
bondLength == 35

\* a position {x, y}; an entry of new Array(n).fill(null) is NullPoint
Point(x, y) == [isNull |-> FALSE, x |-> x, y |-> y]

NullPoint == [isNull |-> TRUE, x |-> 0, y |-> 0]

RECURSIVE SeedScanLast(_, _, _, _, _)
\* a variant in which a later atom with as many connections wins
SeedScanLast(m, neighbors, i, startAtom, maxConnections) ==
    IF i >= NumAtoms(m) THEN startAtom
    ELSE IF m.atoms[i + 1] # "H" /\ Len(neighbors[i]) >= maxConnections
         THEN SeedScanLast(m, neighbors, i + 1, i, Len(neighbors[i]))
         ELSE SeedScanLast(m, neighbors, i + 1, startAtom, maxConnections)

RECURSIVE SeedScan(_, _, _, _, _)
\* the forEach that picks startAtom: most connections, non-hydrogen
SeedScan(m, neighbors, i, startAtom, maxConnections) ==
    IF i >= NumAtoms(m) THEN startAtom
    ELSE IF m.atoms[i + 1] # "H" /\ Len(neighbors[i]) > maxConnections
         THEN SeedScan(m, neighbors, i + 1, i, Len(neighbors[i]))
         ELSE SeedScan(m, neighbors, i + 1, startAtom, maxConnections)

StartAtom(m, neighbors) == SeedScan(m, neighbors, 0, 0, -1)

RECURSIVE BestIndex(_, _, _, _, _, _, _)
\* the optimalAngles.forEach that finds the closest unused candidate angle;
\* hasBest is FALSE while bestDiff is still Infinity
BestIndex(optimalAngles, used, actualAngle, idx, bestIdx, bestDiff, hasBest) ==
    IF idx >= Len(optimalAngles) THEN bestIdx
    ELSE IF idx \in used
         THEN BestIndex(optimalAngles, used, actualAngle, idx + 1, bestIdx, bestDiff, hasBest)
    ELSE LET diff == AngleDiff(optimalAngles[idx + 1], actualAngle)
         IN  IF ~hasBest \/ FloatLess(diff, bestDiff)
             THEN BestIndex(optimalAngles, used, actualAngle, idx + 1, idx, diff, TRUE)
             ELSE BestIndex(optimalAngles, used, actualAngle, idx + 1, bestIdx, bestDiff, hasBest)

RECURSIVE ReservePlaced(_, _, _, _, _, _)
\* placedNeighbors.forEach: reserve one candidate angle per placed neighbour;
\* the sequence of the indices added to usedOptimalIndices, in order
ReservePlaced(optimalAngles, positions, currentPos, placedNeighbors, k, reserved) ==
    IF k > Len(placedNeighbors) THEN reserved
    ELSE ReservePlaced(optimalAngles, positions, currentPos, placedNeighbors, k + 1,
             Append(reserved,
                    BestIndex(optimalAngles, Range(reserved),
                              Atan2(positions[placedNeighbors[k]].y - currentPos.y,
                                    positions[placedNeighbors[k]].x - currentPos.x),
                              0, 0, 0, FALSE)))

\* a variant that takes the next index whether or not it is used
SkipUsedNever(used, angleIdx, n) == angleIdx

RECURSIVE SkipUsed(_, _, _)
\* while (usedOptimalIndices.has(angleIdx) && angleIdx < optimalAngles.length) angleIdx++
SkipUsed(used, angleIdx, n) ==
    IF angleIdx \in used /\ angleIdx < n THEN SkipUsed(used, angleIdx + 1, n) ELSE angleIdx

\* a variant that measures the bond from the origin, not from the current atom
PlaceAtFromOrigin(st, neighbor, currentPos, angle) ==
    [st EXCEPT !.positions[neighbor] = Point(Cos(angle) * bondLength, Sin(angle) * bondLength),
               !.visited = @ \cup {neighbor},
               !.queue = Append(@, neighbor)]

\* positions[neighbor] = {...}; visited.add(neighbor); queue.push(neighbor).
\* st is [positions, visited, queue, steps]
PlaceAt(st, neighbor, currentPos, angle) ==
    [st EXCEPT !.positions[neighbor] = Point(currentPos.x + Cos(angle) * bondLength,
                                             currentPos.y + Sin(angle) * bondLength),
               !.visited = @ \cup {neighbor},
               !.queue = Append(@, neighbor)]

RECURSIVE PlaceUnplaced(_, _, _, _, _, _, _, _)
\* unplacedNeighbors.forEach: give each the next unused candidate angle;
\* angleIdx is the index after the while loop, given lists the
\* <<neighbour, index>> pairs placed so far
PlaceUnplaced(st, optimalAngles, currentPos, unplacedNeighbors, k, angleIdx, used, given) ==
    IF k > Len(unplacedNeighbors) THEN [st |-> st, given |-> given]
    ELSE IF angleIdx < Len(optimalAngles)
         THEN PlaceUnplaced(PlaceAt(st, unplacedNeighbors[k], currentPos,
                                    optimalAngles[angleIdx + 1]),
                            optimalAngles, currentPos, unplacedNeighbors, k + 1,
                            SkipUsed(used \cup {angleIdx}, angleIdx + 1, Len(optimalAngles)),
                            used \cup {angleIdx},
                            Append(given, <<unplacedNeighbors[k], angleIdx>>))
         ELSE PlaceUnplaced(st, optimalAngles, currentPos, unplacedNeighbors, k + 1,
                            SkipUsed(used, angleIdx + 1, Len(optimalAngles)), used, given)

\* the end of one iteration: the traversal's record of it
StepDone(current, optimalAngles, reserved, placedAll) ==
    [placedAll.st EXCEPT !.steps = Append(@, [current  |-> current,
                                               angles   |-> Len(optimalAngles),
                                               optimalAngles |-> optimalAngles,
                                               reserved |-> reserved,
                                               given    |-> placedAll.given])]

\* a variant whose iteration leaves the current atom at the head of the queue
StepPlaceNoShift(st, current, optimalAngles, unplacedNeighbors, reserved) ==
    StepDone(current, optimalAngles, reserved,
             PlaceUnplaced(st, optimalAngles,
                           st.positions[current], unplacedNeighbors, 1,
                           SkipUsed(Range(reserved), 0, Len(optimalAngles)),
                           Range(reserved), <<>>))

\* "Place unplaced neighbors at remaining optimal angles"
StepPlace(st, current, optimalAngles, unplacedNeighbors, reserved) ==
    StepDone(current, optimalAngles, reserved,
             PlaceUnplaced([st EXCEPT !.queue = Tail(@)], optimalAngles,
                           st.positions[current], unplacedNeighbors, 1,
                           SkipUsed(Range(reserved), 0, Len(optimalAngles)),
                           Range(reserved), <<>>))

\* "First, account for already placed neighbors"
StepReserve(st, current, optimalAngles, currentNeighbors) ==
    StepPlace(st, current, optimalAngles,
              SelectSeq(currentNeighbors, LAMBDA n : n \notin st.visited),
              ReservePlaced(optimalAngles, st.positions, st.positions[current],
                            SelectSeq(currentNeighbors, LAMBDA n : n \in st.visited),
                            1, <<>>))

\* one iteration of while (queue.length > 0), current = queue.shift()
VSEPRStep(neighbors, atomInfo, st) ==
    StepReserve(st, Head(st.queue),
                getOptimalAngles(Max2(atomInfo[Head(st.queue)].totalDomains,
                                      Len(neighbors[Head(st.queue)]))),
                neighbors[Head(st.queue)])

RECURSIVE VSEPRLoop(_, _, _)
VSEPRLoop(neighbors, atomInfo, st) ==
    IF st.queue = <<>> THEN st ELSE VSEPRLoop(neighbors, atomInfo, VSEPRStep(neighbors, atomInfo, st))

\* a variant that leaves the unreached entries null
LeaveDisconnected(positions) == positions

\* positions.forEach: "Handle any disconnected atoms"
HandleDisconnected(positions) ==
    [i \in DOMAIN positions |-> IF positions[i].isNull THEN Point(0, 0) ELSE positions[i]]

\* what computeVSEPRPositions returns, with the traversal's record
VSEPRResult(startAtom, st) ==
    [positions |-> HandleDisconnected(st.positions),
     startAtom |-> startAtom,
     placed    |-> {i \in DOMAIN st.positions : ~st.positions[i].isNull},
     steps     |-> st.steps]

\* positions, visited and queue before the while loop
VSEPRStart(m, startAtom) ==
    [positions |-> [i \in AtomIdx(m) |-> IF i = startAtom THEN Point(0, 0) ELSE NullPoint],
     visited   |-> {startAtom},
     queue     |-> <<startAtom>>,
     steps     |-> <<>>]

\* the traversal from startAtom
VSEPRFrom(m, neighbors, atomInfo, startAtom) ==
    VSEPRResult(startAtom, VSEPRLoop(neighbors, atomInfo, VSEPRStart(m, startAtom)))

\* computeVSEPRPositions
computeVSEPRPositions(m, neighbors, atomInfo) ==
    VSEPRFrom(m, neighbors, atomInfo, StartAtom(m, neighbors))

(***************************************************************************)
(* Position resolver and canvas layout normalizer (computeLewisPositions)  *)
(***************************************************************************)
padding == 25

\* molecule.atoms2D && molecule.atoms2D.length === molecule.atoms.length
UseDirect(m) == m.has2D /\ Len(m.atoms2D) = Len(m.atoms)

\* a variant that keeps the 2D record's y axis
DirectPositionsNoFlip(m) ==
    [i \in AtomIdx(m) |-> Point(m.atoms2D[i + 1].x, m.atoms2D[i + 1].y)]

\* molecule.atoms2D.map(atom => ({x: atom.x, y: -atom.y}))
DirectPositions(m) ==
    [i \in AtomIdx(m) |-> Point(m.atoms2D[i + 1].x, -m.atoms2D[i + 1].y)]

\* maxX - minX || 1: a zero range becomes 1 (one layout unit)
RangeOr1(lo, hi) == IF hi - lo = 0 THEN 1000 ELSE hi - lo

\* positions.map(p => ({x: centerX + (p.x - midX) * scale, ...})) with
\* scale = fit / range: atom i goes to (num[i].x / den, num[i].y / den)
Rescaled(positions, size, minX, maxX, minY, maxY, fit, range) ==
    [minX |-> minX, maxX |-> maxX, minY |-> minY, maxY |-> maxY,
     fit |-> fit, range |-> range,
     den |-> 2 * range,
     num |-> [i \in DOMAIN positions |->
                [x |-> size[1] * range + (2 * positions[i].x - minX - maxX) * fit,
                 y |-> size[2] * range + (2 * positions[i].y - minY - maxY) * fit]]]

\* a variant that takes the larger of the two fit factors
MaxScale(positions, size, minX, maxX, minY, maxY, fitX, rangeX, fitY, rangeY) ==
    IF fitX * rangeY >= fitY * rangeX
    THEN Rescaled(positions, size, minX, maxX, minY, maxY, fitX, rangeX)
    ELSE Rescaled(positions, size, minX, maxX, minY, maxY, fitY, rangeY)

\* scale = Math.min(scaleX, scaleY), scaleX = fitX / rangeX, scaleY = fitY / rangeY
MinScale(positions, size, minX, maxX, minY, maxY, fitX, rangeX, fitY, rangeY) ==
    IF fitX * rangeY <= fitY * rangeX
    THEN Rescaled(positions, size, minX, maxX, minY, maxY, fitX, rangeX)
    ELSE Rescaled(positions, size, minX, maxX, minY, maxY, fitY, rangeY)

\* the bounding box's ranges and the padded canvas they must fit
FitBox(positions, size, minX, maxX, minY, maxY) ==
    MinScale(positions, size, minX, maxX, minY, maxY,
             size[1] - padding * 2, RangeOr1(minX, maxX),
             size[2] - padding * 2, RangeOr1(minY, maxY))

\* "Center and scale to fit canvas"
Normalize(positions, size) ==
    FitBox(positions, size,
           SetMin({positions[i].x : i \in DOMAIN positions}),
           SetMax({positions[i].x : i \in DOMAIN positions}),
           SetMin({positions[i].y : i \in DOMAIN positions}),
           SetMax({positions[i].y : i \in DOMAIN positions}))

\* what the resolver chose, and the positions before and after normalization
Layout(mode, resolved, size) ==
    [mode      |-> mode,
     raw       |-> resolved.positions,
     startAtom |-> resolved.startAtom,
     placed    |-> resolved.placed,
     steps     |-> resolved.steps,
     norm      |-> Normalize(resolved.positions, size)]

\* computeLewisPositions
computeLewisPositions(m, neighbors, atomInfo, size) ==
    IF UseDirect(m)
    THEN Layout("direct",
                [positions |-> DirectPositions(m), startAtom |-> -1, placed |-> {},
                 steps |-> <<>>],
                size)
    ELSE Layout("vsepr", computeVSEPRPositions(m, neighbors, atomInfo), size)

(***************************************************************************)
(* Lewis renderer (drawLewisStructure)                                     *)
(*                                                                         *)
(* The pass issues canvas calls.  A call is [op, prop, val, atom, other,   *)
(* k, ang]: op "set" assigns context property prop the value val; "line"  *)
(* strokes a parallel segment of the bond from atom to other (k is twice   *)
(* the segment's offset in steps of the perpendicular, ang the length of   *)
(* that perpendicular step); "dot" fills one                               *)
(* dot (side other = 1 or -1) of the k-th lone pair of atom at angle ang;  *)
(* "disc" fills the label background of atom; "text" writes val at atom.   *)
(***************************************************************************)
Call(op, prop, val, atom, other, k, ang) ==
    [op |-> op, prop |-> prop, val |-> val, atom |-> atom, other |-> other,
     k |-> k, ang |-> ang]

SetProp(prop, val) == Call("set", prop, val, 0, 0, 0, 0)

\* the 2D context of a canvas nothing has drawn on yet
FreshCtx ==
    [fillStyle |-> "#000000", strokeStyle |-> "#000000", lineWidth |-> "1",
     font |-> "10px sans-serif", textAlign |-> "start", textBaseline |-> "alphabetic"]

\* the angles one bond pushes onto bondAngles[i]
BondAngleOf(b, num, i) ==
    LET p1 == num[b.from]
        p2 == num[b.to]
    IN  (IF b.from = i THEN <<Atan2(p2.y - p1.y, p2.x - p1.x)>> ELSE <<>>)
        \o (IF b.to = i THEN <<Atan2(p1.y - p2.y, p1.x - p2.x)>> ELSE <<>>)

RECURSIVE BondAngleList(_, _, _, _)
BondAngleList(bonds, num, i, k) ==
    IF k = 0 THEN <<>>
    ELSE BondAngleList(bonds, num, i, k - 1) \o BondAngleOf(bonds[k], num, i)

\* the bondAngles array
BondAngles(m, num) == [i \in AtomIdx(m) |-> BondAngleList(m.bonds, num, i, Len(m.bonds))]

\* the length of (perpX, perpY) = (-dy / len * 3, dx / len * 3)
bondSpacing == 3

\* len = Math.sqrt(dx * dx + dy * dy) || 1: the perpendicular step has
\* length 3, or 0 when both ends are at one position (dx = dy = 0)
PerpLength(p1, p2) == IF p1 = p2 THEN 0 ELSE bondSpacing

\* a variant that strokes one more segment than the clamped order
BondSegmentsOneMore(b, num) ==
    [i \in 1 .. (Min2(b.order, 3) + 1) |->
        Call("line", "", "", b.from, b.to, 2 * (i - 1) - Min2(b.order, 3),
             PerpLength(num[b.from], num[b.to]))]

\* the for loop that strokes Math.min(bond.order, 3) parallel segments
BondSegments(b, num) ==
    [i \in 1 .. Min2(b.order, 3) |->
        Call("line", "", "", b.from, b.to, 2 * (i - 1) - (Min2(b.order, 3) - 1),
             PerpLength(num[b.from], num[b.to]))]

RECURSIVE DrawBonds(_, _, _)
\* molecule.bonds.forEach under "Draw bonds", for the first k bonds
DrawBonds(bonds, num, k) ==
    IF k = 0 THEN <<>> ELSE DrawBonds(bonds, num, k - 1) \o BondSegments(bonds[k], num)

\* optimalAngles.filter(...): the candidate angles no bond angle is within
\* Math.PI / 4 of
UnusedAngles(optimalAngles, usedAngles) ==
    LET free(optAngle) == ~ \E u \in 1 .. Len(usedAngles) :
                        FloatLess(AngleDiff(optAngle, usedAngles[u]), Pi \div 4)
    IN  SelectSeq(optimalAngles, free)

\* the for loop under "Draw lone pairs": two dots per lone pair drawn
LonePairDots(index, count, unusedAngles) ==
    [j \in 1 .. 2 * count |->
        Call("dot", "", "", index, IF j % 2 = 1 THEN 1 ELSE -1,
             (j + 1) \div 2 - 1, unusedAngles[(j + 1) \div 2])]

\* a variant that draws a dot-pair at every unused angle
DotsAtEveryUnused(index, info, unusedAngles) ==
    LonePairDots(index, Len(unusedAngles), unusedAngles)

\* Math.min(info.lonePairs, unusedAngles.length) lone pairs are drawn
DotsAt(index, info, unusedAngles) ==
    LonePairDots(index, Min2(info.lonePairs, Len(unusedAngles)), unusedAngles)

\* "Draw lone pairs at positions not occupied by bonds", for atom index
DrawLonePairs(index, info, usedAngles) ==
    IF info.lonePairs > 0 /\ info.element # "C" /\ info.element # "H"
    THEN <<SetProp("fillStyle", ElementColor(info.element))>>
         \o DotsAt(index, info,
                   UnusedAngles(getOptimalAngles(info.totalDomains), usedAngles))
    ELSE <<>>

\* "Draw element symbol with background circle", for atom index
DrawLabel(index, element) ==
    <<SetProp("fillStyle", "#1a1a2e"),
      Call("disc", "", "", index, 0, 0, 0),
      SetProp("fillStyle", ElementColor(element)),
      SetProp("font", "bold 12px Arial"),
      SetProp("textAlign", "center"),
      SetProp("textBaseline", "middle"),
      Call("text", "", element, index, 0, 0, 0)>>

\* a variant that draws the label before the atom's lone pairs
DrawAtomLabelFirst(index, info, usedAngles) ==
    DrawLabel(index, info.element) \o DrawLonePairs(index, info, usedAngles)

\* the body of the forEach: the atom's lone pairs, then its label
DrawAtom(index, info, usedAngles) ==
    DrawLonePairs(index, info, usedAngles) \o DrawLabel(index, info.element)

RECURSIVE DrawAtoms(_, _, _)
\* molecule.atoms.forEach under "Draw atoms and lone pairs", for atoms 0..k-1
DrawAtoms(atomInfo, bondAngles, k) ==
    IF k = 0 THEN <<>>
    ELSE DrawAtoms(atomInfo, bondAngles, k - 1)
         \o DrawAtom(k - 1, atomInfo[k - 1], bondAngles[k - 1])

\* a bond the adjacency build cannot index: neighbors[bond.from] or
\* neighbors[bond.to] is undefined and .push raises a TypeError
BondThrows(m, b) == ~ValidIndex(m, b.from) \/ ~ValidIndex(m, b.to)

AdjacencyThrows(m) == \E k \in 1 .. Len(m.bonds) : BondThrows(m, m.bonds[k])

NoLayout ==
    [mode |-> "none", raw |-> <<>>, startAtom |-> -1, placed |-> {}, steps |-> <<>>,
     norm |-> Rescaled(<<>>, <<0, 0>>, 0, 0, 0, 0, 0, 1)]

\* a pass: the molecule it was given and what it computed; error is TRUE
\* when it ended in an exception
PassResult(m, error, atomInfo, layout, bondAngles, calls) ==
    [molecule |-> m, error |-> error, atomInfo |-> atomInfo, layout |-> layout,
     bondAngles |-> bondAngles, calls |-> calls]

\* "Draw bonds" and "Draw atoms and lone pairs"
PassDraw(m, atomInfo, layout, bondAngles) ==
    PassResult(m, FALSE, atomInfo, layout, bondAngles,
               <<SetProp("lineWidth", "2"), SetProp("strokeStyle", "#aaaaaa")>>
               \o DrawBonds(m.bonds, layout.norm.num, Len(m.bonds))
               \o DrawAtoms(atomInfo, bondAngles, NumAtoms(m)))

PassAngles(m, atomInfo, layout) ==
    PassDraw(m, atomInfo, layout, BondAngles(m, layout.norm.num))

PassLayout(m, size, neighbors, atomInfo) ==
    PassAngles(m, atomInfo, computeLewisPositions(m, neighbors, atomInfo, size))

PassInfo(m, size, neighbors) == PassLayout(m, size, neighbors, AtomInfo(m, neighbors))

\* drawLewisStructure(molecule) from after ctx.clearRect: the canvas calls it
\* issues and what it computed on the way
LewisPass(m, size) ==
    IF m.shape = "null" THEN PassResult(m, TRUE, <<>>, NoLayout, <<>>, <<>>)
    ELSE IF m.shape = "noAtoms" \/ NumAtoms(m) = 0
         THEN PassResult(m, FALSE, <<>>, NoLayout, <<>>, <<>>)
    ELSE IF AdjacencyThrows(m) THEN PassResult(m, TRUE, <<>>, NoLayout, <<>>, <<>>)
    ELSE PassInfo(m, size, Neighbors(m))

\* what a canvas call leaves on the surface: the primitive with the context
\* properties that decide how it looks
Rendered(c, cx) ==
    [op |-> c.op, atom |-> c.atom, other |-> c.other, k |-> c.k, ang |-> c.ang,
     text |-> c.val,
     style |-> CASE c.op = "line" -> <<cx.strokeStyle, cx.lineWidth>>
                 [] c.op = "text" -> <<cx.fillStyle, cx.font, cx.textAlign, cx.textBaseline>>
                 [] OTHER -> <<cx.fillStyle>>]

RECURSIVE Exec(_, _, _, _)
\* the canvas executing calls k.. : [ctx, surface] afterwards
Exec(calls, k, cx, drawn) ==
    IF k > Len(calls) THEN [ctx |-> cx, surface |-> drawn]
    ELSE IF calls[k].op = "set"
         THEN Exec(calls, k + 1, [cx EXCEPT ![calls[k].prop] = calls[k].val], drawn)
         ELSE Exec(calls, k + 1, cx, Append(drawn, Rendered(calls[k], cx)))

\* a variant that leaves the surface as it was
clearRectNothing(drawn) == drawn

\* ctx.clearRect(0, 0, canvas.width, canvas.height)
clearRect(drawn) == <<>>

(***************************************************************************)
(* Molecules the runs draw                                                 *)
(***************************************************************************)
Bond(from, to, order) == [from |-> from, to |-> to, order |-> order]

\* a molecule object as getCompoundInfo returns it
Mol(name, atoms, bonds, has2D, atoms2D) ==
    [shape |-> "object", name |-> name, atoms |-> atoms, bonds |-> bonds,
     has2D |-> has2D, atoms2D |-> atoms2D]

\* null, and an object without an atoms property
NullMolecule == [Mol("", <<>>, <<>>, FALSE, <<>>) EXCEPT !.shape = "null"]

NoAtomsMolecule == [Mol("", <<>>, <<>>, FALSE, <<>>) EXCEPT !.shape = "noAtoms"]

\* without 2D coordinates: laid out by the VSEPR fallback
Graph(atoms, bonds) == Mol("", atoms, bonds, FALSE, <<>>)

Water == Graph(<<"O", "H", "H">>, <<Bond(0, 1, 1), Bond(0, 2, 1)>>)

CarbonDioxide == Graph(<<"O", "C", "O">>, <<Bond(1, 0, 2), Bond(1, 2, 2)>>)

Fluorine == Graph(<<"F">>, <<>>)

Catalog == {Water, CarbonDioxide, Fluorine, NullMolecule, NoAtomsMolecule}

\* bounds of the enumerated molecules
MaxAtoms == 2

MaxBonds == 1

MaxOrder == 4

Elements == {"H", "C", "O", "Na"}

\* the bonds a parsed bond line can give for n atoms: a pair of atoms, or
\* an endpoint that is no atom (n: past the end; -1: a 0 in the file)
BondChoices(n) ==
    {Bond(f, t, o) : f \in 0 .. (n - 1), t \in 0 .. (n - 1), o \in 0 .. MaxOrder}
    \cup {Bond(0, n, 1), Bond(n, 0, 1), Bond(-1, 0, 1)}

SeqsUpTo(S, n) == UNION {[1 .. k -> S] : k \in 0 .. n}

\* every molecule of up to maxAtoms atoms and maxBonds bonds
Enumerated(maxAtoms, maxBonds) ==
    UNION {{Graph(atoms, bonds) : atoms \in [1 .. n -> Elements],
                                  bonds \in SeqsUpTo(BondChoices(n), maxBonds)}
           : n \in 0 .. maxAtoms}

\* two separate two-atom components: atoms 0..3 paired off by two bonds
PairElements == {"H", "O"}

Pairings ==
    {<<Bond(0, 1, 1), Bond(2, 3, 1)>>, <<Bond(2, 3, 1), Bond(0, 1, 1)>>,
     <<Bond(0, 2, 1), Bond(3, 1, 1)>>, <<Bond(1, 3, 2), Bond(0, 2, 1)>>,
     <<Bond(0, 3, 1), Bond(1, 2, 1)>>, <<Bond(2, 1, 1), Bond(3, 0, 3)>>}

TwoPairs == {Graph(atoms, bonds) : atoms \in [1 .. 4 -> PairElements], bonds \in Pairings}

\* the 2D record's coordinates, in thousandths
Coords2D == [x : {0, 1000}, y : {0, 1000, -2000}]

\* molecules with a 2D record of as many atoms, or of fewer or more
With2D(maxAtoms) ==
    UNION {{Mol("", atoms, bonds, TRUE, atoms2D) :
                atoms \in [1 .. n -> {"C", "O"}],
                bonds \in {<<>>, <<Bond(0, n - 1, 1)>>},
                atoms2D \in SeqsUpTo(Coords2D, maxAtoms)}
           : n \in 1 .. maxAtoms}

\* CH3-CH2-OH with the middle carbon first, then the methyl carbon, the
\* oxygen, and the hydrogens in the order of their heavy atoms
Ethanol ==
    Graph(<<"C", "C", "O", "H", "H", "H", "H", "H", "H">>,
          <<Bond(0, 1, 1), Bond(0, 2, 1), Bond(0, 3, 1), Bond(0, 4, 1),
            Bond(1, 5, 1), Bond(1, 6, 1), Bond(1, 7, 1), Bond(2, 8, 1)>>)

\* three atoms joined by two or three bond lines: chains, the three-ring,
\* and bond lists that name one pair of atoms twice
TripleBonds == {Bond(0, 1, 1), Bond(1, 2, 1), Bond(0, 2, 1), Bond(2, 1, 2)}

Triples ==
    {Graph(atoms, bonds) : atoms \in [1 .. 3 -> PairElements],
                           bonds \in [1 .. 2 -> TripleBonds] \cup [1 .. 3 -> TripleBonds]}

\* molecules larger than the enumerated ones
Larger == {Ethanol} \cup Triples

Molecules(maxAtoms, maxBonds) ==
    Enumerated(maxAtoms, maxBonds) \cup TwoPairs \cup With2D(maxAtoms) \cup Catalog
        \cup Larger

\* the molecules drawn on the same canvas between two draws of the one
\* under study
Others == {Water, Fluorine}

CanvasSizes == {<<300, 150>>, <<200, 200>>}

(***************************************************************************)
(* Layout runs: drawLewisStructure called on one molecule, repeatedly      *)
(***************************************************************************)
MaxPasses == 2

NoPass == PassResult(NullMolecule, FALSE, <<>>, NoLayout, <<>>, <<>>)

\* the search box as the page loads: empty, no timer, nothing requested,
\* no suggestions
NoSearch ==
    [text |-> "", searchTimeout |-> "", fetches |-> <<>>, results |-> <<>>,
     visible |-> FALSE, cleared |-> FALSE]

\* no traversal under way
NoTraversal ==
    [st |-> [positions |-> <<>>, visited |-> {}, queue |-> <<>>, steps |-> <<>>],
     returned |-> FALSE]

\* the molecule group before anything was rendered
NoScene == [of |-> "", style |-> "", atoms |-> 0, bonds |-> <<>>]

NoEvent == [kind |-> "none", lewisRan |-> FALSE, renderRan |-> FALSE]

AppIdle ==
    /\ currentMolecule = NullMolecule
    /\ viewStyle = "ball-stick"
    /\ scene = NoScene
    /\ loading = FALSE
    /\ infoPanel = ""
    /\ issued = <<>>
    /\ status = <<>>
    /\ pendingAtIssue = <<>>
    /\ lastEvent = NoEvent

InitLayout ==
    /\ fpLaterWins \in BOOLEAN
    /\ canvasSize \in CanvasSizes
    /\ molecule \in Molecules(MaxAtoms, MaxBonds)
    /\ passes = 0
    /\ ctx = FreshCtx
    /\ surface = <<>>
    /\ pass = NoPass
    /\ previous = NullMolecule
    /\ AppIdle
    /\ traversal = NoTraversal
    /\ search = NoSearch

\* the canvas after the pass's calls
Painted(e) == ctx' = e.ctx /\ surface' = e.surface

\* the pass's calls executed on the cleared surface
Shown(r) == pass' = r /\ Painted(Exec(r.calls, 1, ctx, clearRect(surface)))

\* drawLewisStructure(m): clear the surface, run the pass, leave what it drew
DrawOnCanvas(m) ==
    /\ passes' = passes + 1
    /\ previous' = pass.molecule
    /\ Shown(LewisPass(m, canvasSize))

\* one call of drawLewisStructure(m)
drawLewisStructure(m) ==
    /\ passes < MaxPasses
    /\ DrawOnCanvas(m)
    /\ UNCHANGED <<fpLaterWins, canvasSize, molecule, traversal, search, appVars>>

NextLayout == \E m \in {molecule} \cup Others : drawLewisStructure(m)

SpecLayout == InitLayout /\ [][NextLayout]_vars

(***************************************************************************)
(* computeVSEPRPositions, one iteration of its while loop at a time        *)
(***************************************************************************)
\* the iterations a run is followed for
MaxSteps == 12

\* the molecules computeVSEPRPositions is called on
LaidOutByVSEPR(maxAtoms, maxBonds) ==
    {m \in Molecules(maxAtoms, maxBonds) :
        m.shape = "object" /\ NumAtoms(m) > 0 /\ ~AdjacencyThrows(m) /\ ~UseDirect(m)}

\* computeVSEPRPositions(atoms, neighbors, atomInfo) has run up to the loop
InitTraversal ==
    /\ fpLaterWins \in BOOLEAN
    /\ canvasSize \in CanvasSizes
    /\ molecule \in LaidOutByVSEPR(MaxAtoms, MaxBonds)
    /\ traversal = [st       |-> VSEPRStart(molecule, StartAtom(molecule, Neighbors(molecule))),
                    returned |-> FALSE]
    /\ passes = 0
    /\ ctx = FreshCtx
    /\ surface = <<>>
    /\ pass = NoPass
    /\ previous = NullMolecule
    /\ AppIdle
    /\ search = NoSearch

\* one iteration of while (queue.length > 0)
whileQueue ==
    /\ ~traversal.returned
    /\ traversal.st.queue # <<>>
    /\ Len(traversal.st.steps) < MaxSteps
    /\ traversal' = [traversal EXCEPT !.st =
                        VSEPRStep(Neighbors(molecule),
                                  AtomInfo(molecule, Neighbors(molecule)), @)]
    /\ UNCHANGED <<fpLaterWins, canvasSize, molecule, canvasVars, appVars, search>>

\* the loop has ended: "Handle any disconnected atoms" and return positions
returnPositions ==
    /\ ~traversal.returned
    /\ traversal.st.queue = <<>>
    /\ traversal' = [traversal EXCEPT !.st.positions = HandleDisconnected(@),
                                      !.returned = TRUE]
    /\ UNCHANGED <<fpLaterWins, canvasSize, molecule, canvasVars, appVars, search>>

NextTraversal == whileQueue \/ returnPositions

SpecTraversal == InitTraversal /\ [][NextTraversal]_vars

(***************************************************************************)
(* The application: loadMolecule, renderMolecule, the view-style buttons   *)
(***************************************************************************)
MaxRequests == 2

ViewStyles == {"ball-stick", "space-fill", "stick"}

\* what the search box, the dropdown or a suggestion can hand to loadMolecule
Names == {"water", "co2", "broken", "nosuch"}

\* the compounds PubChem knows under these names, as getCompoundInfo builds
\* them: atoms and bonds from the 3D record, atoms2D from the 2D record
Compound(name) ==
    CASE name = "water" ->
            Mol("water", <<"O", "H", "H">>, <<Bond(0, 1, 1), Bond(0, 2, 1)>>, TRUE,
                <<[x |-> 2000, y |-> 0], [x |-> 3000, y |-> 1000], [x |-> 1000, y |-> 1000]>>)
      [] name = "co2" ->
            Mol("co2", <<"O", "C", "O">>, <<Bond(1, 0, 2), Bond(1, 2, 2)>>, TRUE, <<>>)
      [] name = "broken" ->
            Mol("broken", <<"C", "O">>, <<Bond(0, 1, 2), Bond(0, 2, 1)>>, TRUE,
                <<[x |-> 0, y |-> 0], [x |-> 1000, y |-> 0]>>)

Known == {"water", "co2", "broken"}

\* createBond: Math.min(order, 3) cylinders
createBond(b) == [from |-> b.from, to |-> b.to, cylinders |-> Min2(b.order, 3)]

\* renderMolecule(m) in view style: what the molecule group holds afterwards
renderMolecule(m, style) ==
    IF m.shape = "noAtoms" \/ NumAtoms(m) = 0
    THEN [of |-> m.name, style |-> style, atoms |-> 0, bonds |-> <<>>]
    ELSE [of |-> m.name, style |-> style, atoms |-> NumAtoms(m),
          bonds |-> IF style # "space-fill"
                    THEN LET both(b) == ValidIndex(m, b.from) /\ ValidIndex(m, b.to)
                             drawn   == SelectSeq(m.bonds, both)
                         IN  [k \in 1 .. Len(drawn) |-> createBond(drawn[k])]
                    ELSE <<>>]

\* showError: #molecule-name reads 'Error'
showError == "Error"

Init ==
    /\ fpLaterWins \in BOOLEAN
    /\ canvasSize \in CanvasSizes
    /\ molecule = NullMolecule
    /\ passes = 0
    /\ ctx = FreshCtx
    /\ surface = <<>>
    /\ pass = NoPass
    /\ previous = NullMolecule
    /\ AppIdle
    /\ traversal = NoTraversal
    /\ search = NoSearch

InFlight == {k \in 1 .. Len(status) : status[k] = "inflight"}

Event(kind, renderRan, lewisRan) ==
    [kind |-> kind, renderRan |-> renderRan, lewisRan |-> lewisRan]

\* showLoading and the call of getCompoundInfo
startLoad(nameOrCid) ==
    /\ loading' = TRUE
    /\ issued' = Append(issued, nameOrCid)
    /\ status' = Append(status, "inflight")
    /\ pendingAtIssue' = Append(pendingAtIssue, InFlight)
    /\ lastEvent' = Event("loadStarted", FALSE, FALSE)

\* loadMolecule(nameOrCid) up to the await: showLoading, start the lookup
loadMolecule(nameOrCid) ==
    /\ nameOrCid # ""
    /\ Len(issued) < MaxRequests
    /\ startLoad(nameOrCid)
    /\ UNCHANGED <<fpLaterWins, canvasSize, molecule, traversal, search, canvasVars, currentMolecule,
                   viewStyle, scene, infoPanel>>

\* loadMolecule after the await, getCompoundInfo having resolved: the try
\* block (an exception from drawLewisStructure goes to catch), then finally
loadResolved(k) ==
    /\ k \in InFlight
    /\ issued[k] \in Known
    /\ LET m == Compound(issued[k])
       IN  /\ currentMolecule' = m
           /\ scene' = renderMolecule(m, viewStyle)
           /\ DrawOnCanvas(m)
           /\ infoPanel' = IF pass'.error THEN showError ELSE m.name
    /\ loading' = FALSE
    /\ status' = [status EXCEPT ![k] = "resolved"]
    /\ lastEvent' = Event("loaded", TRUE, TRUE)
    /\ UNCHANGED <<fpLaterWins, canvasSize, molecule, traversal, search, viewStyle, issued, pendingAtIssue>>

\* a variant of the rejected lookup without the finally block
loadRejectedNoFinally(k) ==
    /\ k \in InFlight
    /\ infoPanel' = showError
    /\ status' = [status EXCEPT ![k] = "rejected"]
    /\ lastEvent' = Event("lookupFailed", FALSE, FALSE)
    /\ UNCHANGED <<fpLaterWins, canvasSize, molecule, traversal, search, canvasVars, currentMolecule,
                   viewStyle, scene, loading, issued, pendingAtIssue>>

\* loadMolecule after the await, getCompoundInfo having rejected: catch, finally
loadRejected(k) ==
    /\ k \in InFlight
    /\ infoPanel' = showError
    /\ loading' = FALSE
    /\ status' = [status EXCEPT ![k] = "rejected"]
    /\ lastEvent' = Event("lookupFailed", FALSE, FALSE)
    /\ UNCHANGED <<fpLaterWins, canvasSize, molecule, traversal, search, canvasVars, currentMolecule,
                   viewStyle, scene, issued, pendingAtIssue>>

\* a variant of the click handler that also redraws the Lewis structure
clickViewStyleAndRedraw(v) ==
    /\ viewStyle' = v
    /\ currentMolecule.shape # "null"
    /\ scene' = renderMolecule(currentMolecule, v)
    /\ DrawOnCanvas(currentMolecule)
    /\ lastEvent' = Event("viewStyle", TRUE, TRUE)
    /\ UNCHANGED <<fpLaterWins, canvasSize, molecule, traversal, search, currentMolecule,
                   loading, infoPanel, issued, status, pendingAtIssue>>

\* the click handler of a .view-btn
clickViewStyle(v) ==
    /\ viewStyle' = v
    /\ scene' = IF currentMolecule.shape # "null"
                THEN renderMolecule(currentMolecule, v) ELSE scene
    /\ lastEvent' = Event("viewStyle", currentMolecule.shape # "null", FALSE)
    /\ UNCHANGED <<fpLaterWins, canvasSize, molecule, traversal, search, canvasVars, currentMolecule,
                   loading, infoPanel, issued, status, pendingAtIssue>>

Next ==
    \/ \E n \in Names : loadMolecule(n)
    \/ \E k \in 1 .. MaxRequests : loadResolved(k)
    \/ \E k \in 1 .. MaxRequests : loadRejected(k)
    \/ \E v \in ViewStyles : clickViewStyle(v)

Spec == Init /\ [][Next]_vars

(***************************************************************************)
(* The search box: input, debounce timer, autocomplete, submit             *)
(***************************************************************************)
\* the autocomplete requests followed at one time
MaxFetches == 2

\* what the user can have in #molecule-search
Texts == {"", " w", "wa", "water"}

\* String.prototype.trim on these texts
trim(t) == IF t = " w" THEN "w" ELSE t

\* .length of a trimmed text
length(t) ==
    CASE t = "" -> 0
      [] t = "w" -> 1
      [] t = "wa" -> 2
      [] t = "water" -> 5

\* what pubchem.autocomplete can resolve to: the compound terms, or [] when
\* there are none, the response is not ok, or the fetch throws
AutocompleteAnswers == {<<>>, <<"water", "co2">>}

\* searchResults.innerHTML = ''; searchResults.classList.remove('visible')
hideSuggestions(sb) == [sb EXCEPT !.results = <<>>, !.visible = FALSE]

\* showSearchSuggestions(suggestions)
showSearchSuggestions(sb, suggestions) ==
    IF Len(suggestions) = 0 THEN hideSuggestions(sb)
    ELSE [sb EXCEPT !.results = suggestions, !.visible = TRUE]

\* the sequence q without its k-th element
Without(q, k) == [i \in 1 .. (Len(q) - 1) |-> IF i < k THEN q[i] ELSE q[i + 1]]

\* the app variables a search-box handler leaves alone when it loads nothing
loadVars == <<loading, issued, status, pendingAtIssue, lastEvent>>

\* the 'input' listener of the search box, the text having become t
inputSearch(t) ==
    /\ search' = IF length(trim(t)) < 2
                 THEN [hideSuggestions(search) EXCEPT !.text = t, !.searchTimeout = "",
                                                      !.cleared = TRUE]
                 ELSE [search EXCEPT !.text = t, !.searchTimeout = trim(t),
                                     !.cleared = FALSE]
    /\ UNCHANGED <<fpLaterWins, canvasSize, molecule, traversal, canvasVars, appVars>>

\* the debounce timer fires: the callback up to its await
timerFires ==
    /\ search.searchTimeout # ""
    /\ Len(search.fetches) < MaxFetches
    /\ search' = [search EXCEPT !.fetches = Append(@, search.searchTimeout),
                                !.searchTimeout = ""]
    /\ UNCHANGED <<fpLaterWins, canvasSize, molecule, traversal, canvasVars, appVars>>

\* pubchem.autocomplete(query) of the k-th request resolves: the rest of the
\* timer callback
autocompleteReturns(k, suggestions) ==
    /\ k \in 1 .. Len(search.fetches)
    /\ search' = [showSearchSuggestions(search, suggestions)
                     EXCEPT !.fetches = Without(search.fetches, k)]
    /\ UNCHANGED <<fpLaterWins, canvasSize, molecule, traversal, canvasVars, appVars>>

\* Enter in the search box, or a click on the search button: the two
\* listeners have the same body
submitSearch ==
    /\ search' = [hideSuggestions(search) EXCEPT !.cleared = TRUE]
    /\ IF trim(search.text) = "" THEN UNCHANGED loadVars
       ELSE Len(issued) < MaxRequests /\ startLoad(trim(search.text))
    /\ UNCHANGED <<fpLaterWins, canvasSize, molecule, traversal, canvasVars,
                   currentMolecule, viewStyle, scene, infoPanel>>

\* a click outside .search-section
clickOutside ==
    /\ search' = hideSuggestions(search)
    /\ UNCHANGED <<fpLaterWins, canvasSize, molecule, traversal, canvasVars, appVars>>

\* a click on the i-th suggestion
clickSuggestion(i) ==
    /\ search.visible
    /\ i \in 1 .. Len(search.results)
    /\ search' = [hideSuggestions(search) EXCEPT !.text = search.results[i]]
    /\ Len(issued) < MaxRequests
    /\ startLoad(search.results[i])
    /\ UNCHANGED <<fpLaterWins, canvasSize, molecule, traversal, canvasVars,
                   currentMolecule, viewStyle, scene, infoPanel>>

NextSearch ==
    \/ \E t \in Texts : inputSearch(t)
    \/ timerFires
    \/ \E k \in 1 .. MaxFetches, a \in AutocompleteAnswers : autocompleteReturns(k, a)
    \/ submitSearch
    \/ clickOutside
    \/ \E i \in 1 .. 2 : clickSuggestion(i)
    \/ \E k \in 1 .. MaxRequests : loadResolved(k)
    \/ \E k \in 1 .. MaxRequests : loadRejected(k)

SpecSearch == Init /\ [][NextSearch]_vars

(***************************************************************************)
(* Properties                                                              *)
(***************************************************************************)
\* the dots a pass drew at atom i, each as <<lone pair, side, angle>>
DotsOf(p, i) ==
    LET dots == SelectSeq(p.calls, LAMBDA c : c.op = "dot" /\ c.atom = i)
    IN  [k \in 1 .. Len(dots) |-> <<dots[k].k, dots[k].other, dots[k].ang>>]

\* a pass that went through layout and drawing
Completed(p) == ~p.error /\ p.molecule.shape = "object" /\ p.molecule.atoms # <<>>

\* C1 (as amended): for water laid out by the VSEPR fallback, O has valence
\* 6, bonded electrons 2, lone pairs 2 and total domains 4; the two O-H
\* bonds take the first two of four candidate angles 90 degrees apart (-90
\* and 0 degrees), and exactly two lone-pair dot-pairs are drawn at O, at the
\* two remaining candidate angles (90 and 180 degrees).
C1_WaterFourDomains ==
    (passes > 0 /\ pass.molecule = Water) =>
        /\ ~pass.error
        /\ pass.layout.mode = "vsepr"
        /\ pass.atomInfo[0].valence = 6
        /\ pass.atomInfo[0].bondedElectrons = 2
        /\ pass.atomInfo[0].lonePairs = 2
        /\ pass.atomInfo[0].totalDomains = 4
        /\ pass.layout.startAtom = 0
        /\ pass.layout.steps[1].current = 0
        /\ pass.layout.steps[1].angles = 4
        /\ pass.layout.steps[1].given = <<<<1, 0>>, <<2, 1>>>>
        /\ pass.bondAngles[0] = <<-90000, 0>>
        /\ DotsOf(pass, 0) = <<<<0, 1, 90000>>, <<0, -1, 90000>>,
                               <<1, 1, 180000>>, <<1, -1, 180000>>>>

\* C1, reached: water has been drawn, with dots at its O
C1_WaterDrawn ==
    passes > 0 /\ pass.molecule = Water /\ ~pass.error /\ Len(DotsOf(pass, 0)) > 0

\* C1 as the specification words it: total domains 3, three candidate angles
\* 120 degrees apart, and exactly one dot-pair at O
C1_WaterThreeDomains ==
    (passes > 0 /\ pass.molecule = Water) =>
        /\ pass.atomInfo[0].valence = 6
        /\ pass.atomInfo[0].bondedElectrons = 2
        /\ pass.atomInfo[0].lonePairs = 2
        /\ pass.atomInfo[0].totalDomains = 3
        /\ pass.layout.steps[1].angles = 3
        /\ Len(DotsOf(pass, 0)) = 2

\* C2 as the specification words it: when load B was issued while load A was
\* in flight and both have resolved, currentMolecule, the 3D view and the
\* Lewis surface show B's molecule
C2_LaterLoadWins ==
    \A a, b \in 1 .. Len(issued) :
        (a \in pendingAtIssue[b] /\ status[a] = "resolved" /\ status[b] = "resolved") =>
            /\ currentMolecule.name = issued[b]
            /\ scene.of = issued[b]
            /\ pass.molecule.name = issued[b]

\* C2, reached: the earlier load resolved after the later one and is shown
C2_EarlierLoadShown ==
    \E a, b \in 1 .. Len(issued) :
        /\ a \in pendingAtIssue[b]
        /\ status[a] = "resolved" /\ status[b] = "resolved"
        /\ issued[a] # issued[b]
        /\ currentMolecule.name = issued[a]
        /\ scene.of = issued[a]
        /\ pass.molecule.name = issued[a]

\* C3 (as amended): every "new molecule loaded" event runs one fresh Lewis
\* pass for the newly loaded molecule (and renders the 3D view); a "view
\* style changed" event re-renders the 3D view only, running no Lewis pass
\* and leaving the Lewis surface as it was.
C3_LoadDrawsStyleDoesNot ==
    [][/\ lastEvent'.kind = "loaded" =>
            /\ passes' = passes + 1
            /\ pass' = LewisPass(currentMolecule', canvasSize)
            /\ scene' = renderMolecule(currentMolecule', viewStyle)
       /\ lastEvent'.kind = "viewStyle" =>
            /\ passes' = passes
            /\ UNCHANGED <<ctx, surface, pass>>
            /\ currentMolecule.shape # "null" =>
                   scene' = renderMolecule(currentMolecule, viewStyle')]_vars

\* C3, reached: the view style was changed with a molecule loaded, and the
\* only Lewis pass so far is the load's
C3_StyleChangedWhileLoaded ==
    /\ lastEvent.kind = "viewStyle"
    /\ currentMolecule.shape # "null"
    /\ scene.style = "stick"
    /\ scene.of = currentMolecule.name
    /\ passes = 1

\* C3 as the specification words it: every "new molecule loaded" event and
\* every "view style changed" event with a molecule loaded runs a Lewis pass
C3_EveryEventDraws ==
    [][(lastEvent'.kind \in {"loaded", "viewStyle"} /\ currentMolecule'.shape # "null")
          => passes' = passes + 1]_vars

\* C4 as the specification words it: a pass over a molecule with a bond whose
\* from or to is no index of the atom list raises no error, labels every atom
\* and draws the remaining bonds
C4_InvalidBondSkipped ==
    LET m == pass.molecule
        valid(b) == b.from \in 0 .. (Len(m.atoms) - 1) /\ b.to \in 0 .. (Len(m.atoms) - 1)
    IN  (/\ passes > 0
         /\ m.shape = "object"
         /\ m.atoms # <<>>
         /\ \E k \in 1 .. Len(m.bonds) : ~valid(m.bonds[k])) =>
            /\ ~pass.error
            /\ \A i \in 0 .. (Len(m.atoms) - 1) :
                   \E c \in 1 .. Len(pass.calls) :
                       pass.calls[c].op = "text" /\ pass.calls[c].atom = i
            /\ \A k \in 1 .. Len(m.bonds) :
                   (valid(m.bonds[k]) /\ m.bonds[k].order > 0) =>
                       \E c \in 1 .. Len(pass.calls) :
                           /\ pass.calls[c].op = "line"
                           /\ pass.calls[c].atom = m.bonds[k].from
                           /\ pass.calls[c].other = m.bonds[k].to

\* C4, reached: a pass over a molecule with such a bond ended in an
\* exception, the surface cleared and nothing drawn
C4_InvalidBondThrows ==
    /\ passes > 0
    /\ pass.molecule.atoms # <<>>
    /\ \E k \in 1 .. Len(pass.molecule.bonds) :
           pass.molecule.bonds[k].to \notin 0 .. (Len(pass.molecule.atoms) - 1)
    /\ pass.error
    /\ surface = <<>>

\* C5: when the lookup of a load request is rejected, loadMolecule shows the
\* error state, runs neither renderMolecule nor drawLewisStructure, leaves
\* currentMolecule as it was and ends with the loading indicator hidden.
C5_RejectedLookup ==
    [][lastEvent'.kind = "lookupFailed" =>
          /\ infoPanel' = "Error"
          /\ UNCHANGED <<currentMolecule, scene, ctx, surface, pass, passes>>
          /\ loading' = FALSE]_vars

\* C5, reached: a lookup was rejected while a molecule was loaded
C5_RejectedAfterLoaded ==
    /\ lastEvent.kind = "lookupFailed"
    /\ \E k \in 1 .. Len(status) : status[k] = "rejected"
    /\ currentMolecule.shape # "null"
    /\ infoPanel = "Error"
    /\ ~loading

\* C6 as the specification words it: drawLewisStructure given a molecule with
\* an empty atom list, or no molecule, raises no error and draws nothing
C6_EmptyOrMissingSilent ==
    (passes > 0 /\ (pass.molecule.shape = "null" \/ pass.molecule.atoms = <<>>)) =>
        /\ ~pass.error
        /\ pass.calls = <<>>
        /\ surface = <<>>

\* C6, reached: drawLewisStructure given no molecule ended in an exception
\* after clearing the surface
C6_MissingMoleculeThrows ==
    /\ passes > 0
    /\ pass.molecule.shape = "null"
    /\ pass.error
    /\ surface = <<>>

\* C7: when atoms2D is present and as long as the atom list, every atom's
\* position before normalization is (atoms2D[i].x, -atoms2D[i].y) and no
\* VSEPR placement is made; otherwise the VSEPR fallback lays the atoms out.
C7_ModeSelection ==
    (passes > 0 /\ Completed(pass)) =>
        LET m == pass.molecule
        IN  IF m.has2D /\ Len(m.atoms2D) = Len(m.atoms)
            THEN /\ pass.layout.mode = "direct"
                 /\ DOMAIN pass.layout.raw = 0 .. (Len(m.atoms) - 1)
                 /\ \A i \in 0 .. (Len(m.atoms) - 1) :
                        /\ pass.layout.raw[i].x = m.atoms2D[i + 1].x
                        /\ pass.layout.raw[i].y = -m.atoms2D[i + 1].y
                 /\ pass.layout.steps = <<>>
            ELSE /\ pass.layout.mode = "vsepr"
                 /\ Len(pass.layout.steps) >= 1
                 /\ pass.layout.steps[1].current = pass.layout.startAtom
                 /\ pass.layout.raw[pass.layout.startAtom].x = 0
                 /\ pass.layout.raw[pass.layout.startAtom].y = 0

\* C7, reached: a direct-mode layout of two atoms with a nonzero y
C7_DirectWithY ==
    /\ passes > 0
    /\ Completed(pass)
    /\ pass.layout.mode = "direct"
    /\ Len(pass.molecule.atoms) = 2
    /\ pass.layout.raw[1].y = 2000
    /\ pass.molecule.atoms2D[2].y = -2000

\* C8: a draw of a molecule after any earlier draws computes the positions
\* and issues the calls of a draw of it on its own, and leaves on the
\* surface what those calls leave on a canvas nothing was drawn on.
C8_DrawIsFresh ==
    passes > 0 =>
        /\ pass = LewisPass(pass.molecule, canvasSize)
        /\ surface = Exec(pass.calls, 1, FreshCtx, <<>>).surface

\* C8, reached: a molecule with dots drawn after a different molecule that
\* left its own styles in the context
C8_DrawnAfterAnother ==
    /\ passes >= 2
    /\ previous \in Others
    /\ previous # pass.molecule
    /\ Completed(pass)
    /\ \E c \in 1 .. Len(surface) : surface[c].op = "dot"
    /\ \E c \in 1 .. Len(surface) : surface[c].op = "line"

\* C9: normalization maps every position p to center + (p - mid) * s with
\* one s for both axes, s the smaller of the x and y fit factors (a zero
\* range replaced by 1), so the bounding box's center goes to the surface's
\* center and the normalized bounding box is at most the surface less twice
\* the padding on each axis.  Coordinates are the fractions num / den.
C9_NormalizationFits ==
    (passes > 0 /\ Completed(pass)) =>
        LET raw  == pass.layout.raw
            n    == pass.layout.norm
            I    == DOMAIN raw
            W    == canvasSize[1]
            H    == canvasSize[2]
            minX == SetMin({raw[i].x : i \in I})
            maxX == SetMax({raw[i].x : i \in I})
            minY == SetMin({raw[i].y : i \in I})
            maxY == SetMax({raw[i].y : i \in I})
            rX   == IF maxX = minX THEN 1000 ELSE maxX - minX
            rY   == IF maxY = minY THEN 1000 ELSE maxY - minY
            fitX == W - 2 * padding
            fitY == H - 2 * padding
            nx   == {n.num[i].x : i \in I}
            ny   == {n.num[i].y : i \in I}
        IN  /\ n.range > 0 /\ n.den = 2 * n.range
            /\ <<n.fit, n.range>> \in {<<fitX, rX>>, <<fitY, rY>>}
            /\ n.fit * rX <= fitX * n.range
            /\ n.fit * rY <= fitY * n.range
            /\ \A i \in I :
                   /\ n.num[i].x = W * n.range + (2 * raw[i].x - (minX + maxX)) * n.fit
                   /\ n.num[i].y = H * n.range + (2 * raw[i].y - (minY + maxY)) * n.fit
            /\ SetMin(nx) + SetMax(nx) = W * n.den
            /\ SetMin(ny) + SetMax(ny) = H * n.den
            /\ SetMax(nx) - SetMin(nx) <= fitX * n.den
            /\ SetMax(ny) - SetMin(ny) <= fitY * n.den

\* C9, reached: a layout whose bounding box has zero width and nonzero
\* height, and one where the x axis decides the scale
C9_ZeroWidthBox ==
    /\ passes > 0
    /\ Completed(pass)
    /\ Len(pass.molecule.atoms) >= 2
    /\ pass.layout.norm.minX = pass.layout.norm.maxX
    /\ pass.layout.norm.minY < pass.layout.norm.maxY
    /\ pass.layout.norm.range = pass.layout.norm.maxY - pass.layout.norm.minY

\* C10: for two separate two-atom components laid out by the VSEPR
\* fallback, both atoms of the component without the seed are at the origin
\* before normalization, every atom has a position and a label, and the
\* normalized coordinates have a nonzero denominator.
C10_UnreachedAtOrigin ==
    (passes > 0 /\ pass.molecule \in TwoPairs) =>
        LET m      == pass.molecule
            seed   == pass.layout.startAtom
            linked == {seed} \cup {j \in 0 .. 3 : \E k \in 1 .. Len(m.bonds) :
                                       {m.bonds[k].from, m.bonds[k].to} = {seed, j}}
        IN  /\ ~pass.error
            /\ pass.layout.mode = "vsepr"
            /\ Cardinality(linked) = 2
            /\ pass.layout.placed = linked
            /\ DOMAIN pass.layout.raw = 0 .. 3
            /\ DOMAIN pass.layout.norm.num = 0 .. 3
            /\ \A i \in (0 .. 3) \ linked :
                   /\ ~pass.layout.raw[i].isNull
                   /\ pass.layout.raw[i].x = 0
                   /\ pass.layout.raw[i].y = 0
            /\ \A i \in 0 .. 3 :
                   \E c \in 1 .. Len(pass.calls) :
                       pass.calls[c].op = "text" /\ pass.calls[c].atom = i
            /\ pass.layout.norm.den # 0

\* C10, reached: the seed is in the second component, the first one unreached
C10_FirstComponentUnreached ==
    /\ passes > 0
    /\ pass.molecule \in TwoPairs
    /\ pass.layout.startAtom = 2
    /\ pass.layout.placed = {2, 3}
    /\ pass.layout.raw[0] = pass.layout.raw[1]

RECURSIVE IncidentOrders(_, _, _)
\* the sum, over the ends at atom i of the first k bonds of m, of the order
\* on record for that bond's pair of atoms (the last bond of the pair
\* decides; an order that is missing or 0 counts 1)
IncidentOrders(m, i, k) ==
    IF k = 0 THEN 0
    ELSE LET b    == m.bonds[k]
             same == {j \in 1 .. Len(m.bonds) :
                         {m.bonds[j].from, m.bonds[j].to} = {b.from, b.to}}
             o    == m.bonds[SetMax(same)].order
             ends == (IF b.from = i THEN 1 ELSE 0) + (IF b.to = i THEN 1 ELSE 0)
         IN  IncidentOrders(m, i, k - 1) + ends * (IF o = 0 THEN 1 ELSE o)

\* C11: for every atom, valence is the table's value (4 for an element the
\* table lacks), bondedElectrons the sum of the bond orders over its
\* neighbours, lonePairs = max(0, floor((valence - bondedElectrons) / 2)) and
\* never negative, totalDomains = neighbour count + lonePairs; in O=C=O the C
\* has bonded electrons 4 and no lone pair, each O bonded electrons 2 and 2
\* lone pairs.
C11_AtomInfoFormula ==
    (passes > 0 /\ Completed(pass)) =>
        LET m == pass.molecule
            table == [H |-> 1, C |-> 4, N |-> 5, O |-> 6, F |-> 7, Cl |-> 7, Br |-> 7,
                      I |-> 7, S |-> 6, P |-> 5, B |-> 3, Si |-> 4]
        IN  /\ DOMAIN pass.atomInfo = 0 .. (Len(m.atoms) - 1)
            /\ \A i \in 0 .. (Len(m.atoms) - 1) :
                   LET info == pass.atomInfo[i]
                       ends == Cardinality({k \in 1 .. Len(m.bonds) : m.bonds[k].from = i})
                               + Cardinality({k \in 1 .. Len(m.bonds) : m.bonds[k].to = i})
                   IN  /\ info.element = m.atoms[i + 1]
                       /\ info.valence = IF info.element \in DOMAIN table
                                         THEN table[info.element] ELSE 4
                       /\ info.bondCount = ends
                       /\ info.bondedElectrons = IncidentOrders(m, i, Len(m.bonds))
                       /\ info.lonePairs >= 0
                       /\ info.lonePairs =
                              IF info.valence - info.bondedElectrons >= 2
                              THEN (info.valence - info.bondedElectrons) \div 2 ELSE 0
                       /\ info.totalDomains = ends + info.lonePairs
            /\ m = CarbonDioxide =>
                   /\ pass.atomInfo[1].bondedElectrons = 4 /\ pass.atomInfo[1].lonePairs = 0
                   /\ pass.atomInfo[0].bondedElectrons = 2 /\ pass.atomInfo[0].lonePairs = 2
                   /\ pass.atomInfo[2].bondedElectrons = 2 /\ pass.atomInfo[2].lonePairs = 2

\* C11, reached: O=C=O has been drawn, its C with bonded electrons 4
C11_CarbonDioxideDrawn ==
    /\ passes > 0
    /\ Completed(pass)
    /\ pass.molecule = CarbonDioxide
    /\ pass.atomInfo[1].valence = 4
    /\ pass.atomInfo[1].bondedElectrons = 4

\* C12: getOptimalAngles(N) returns exactly N angles (none for N = 0); the
\* i-th (from 0) is -pi/2 + i * 2*pi/N, so the first is -pi/2, consecutive
\* ones differ by 2*pi/N and all lie in [-pi, 2*pi).  Stated of the arrays
\* the traversal asked for, N = max(totalDomains, neighbour count).
C12_EvenlySpacedAngles ==
    (passes > 0 /\ Completed(pass) /\ pass.layout.mode = "vsepr") =>
        \A s \in 1 .. Len(pass.layout.steps) :
            LET step == pass.layout.steps[s]
                a    == step.optimalAngles
                d    == pass.atomInfo[step.current].totalDomains
                c    == pass.atomInfo[step.current].bondCount
                N    == IF d > c THEN d ELSE c
            IN  /\ N >= 0
                /\ Len(a) = N
                /\ DOMAIN a = 1 .. N
                /\ N > 0 => a[1] = -90000
                /\ \A j \in 1 .. N :
                       /\ N * (a[j] + 90000) = 360000 * (j - 1)
                       /\ -180000 <= a[j] /\ a[j] < 360000
                /\ \A j \in 1 .. (N - 1) : N * (a[j + 1] - a[j]) = 360000

\* C12, reached: a traversal asked for three angles, and got -90, 30 and 150
\* degrees
C12_ThreeAngles ==
    /\ passes > 0
    /\ pass.molecule = Fluorine
    /\ Len(pass.layout.steps) = 1
    /\ pass.layout.steps[1].optimalAngles = <<-90000, 30000, 150000>>

\* C13 as the specification words it: a bond whose order is missing counts
\* as order 1 in the bonded electrons of both its atoms and is drawn as
\* exactly one line segment
C13_MissingOrderIsSingle ==
    (passes > 0 /\ Completed(pass)) =>
        LET m == pass.molecule
        IN  \A k \in 1 .. Len(m.bonds) :
                (/\ m.bonds[k].order = 0
                 /\ \A j \in (1 .. Len(m.bonds)) \ {k} :
                        {m.bonds[j].from, m.bonds[j].to} # {m.bonds[k].from, m.bonds[k].to}) =>
                    /\ pass.atomInfo[m.bonds[k].from].bondedElectrons =
                           IncidentOrders(m, m.bonds[k].from, Len(m.bonds))
                    /\ pass.atomInfo[m.bonds[k].to].bondedElectrons =
                           IncidentOrders(m, m.bonds[k].to, Len(m.bonds))
                    /\ Cardinality({c \in 1 .. Len(pass.calls) :
                                       /\ pass.calls[c].op = "line"
                                       /\ pass.calls[c].atom = m.bonds[k].from
                                       /\ pass.calls[c].other = m.bonds[k].to}) = 1

\* C13, reached: the only bond of a molecule has no order; it counted as one
\* electron at each of its atoms and no line segment was drawn for it
C13_MissingOrderUndrawn ==
    /\ passes > 0
    /\ Completed(pass)
    /\ Len(pass.molecule.bonds) = 1
    /\ pass.molecule.bonds[1].order = 0
    /\ pass.molecule.bonds[1].from # pass.molecule.bonds[1].to
    /\ pass.atomInfo[pass.molecule.bonds[1].from].bondedElectrons = 1
    /\ pass.atomInfo[pass.molecule.bonds[1].to].bondedElectrons = 1
    /\ \A c \in 1 .. Len(pass.calls) : pass.calls[c].op # "line"
    /\ \E c \in 1 .. Len(pass.calls) : pass.calls[c].op = "text"

\* the line calls of a pass, in the order issued
LinesOf(p) == SelectSeq(p.calls, LAMBDA c : c.op = "line")

RECURSIVE SegmentsUpTo(_, _)
\* min(order, 3) summed over the first k bonds
SegmentsUpTo(bonds, k) ==
    IF k = 0 THEN 0
    ELSE SegmentsUpTo(bonds, k - 1) + (IF bonds[k].order > 3 THEN 3 ELSE bonds[k].order)

\* the segments of the bonds of a completed pass: bond k of order >= 1 is
\* drawn as n = min(order, 3) segments, the i-th (from 0) offset from the
\* centerline by (i - (n-1)/2) perpendicular steps of length gap(k)
SegmentsAre(p, gap(_)) ==
    LET m == p.molecule
    IN  /\ Len(LinesOf(p)) = SegmentsUpTo(m.bonds, Len(m.bonds))
        /\ \A k \in 1 .. Len(m.bonds) :
               m.bonds[k].order >= 1 =>
                   LET n    == IF m.bonds[k].order > 3 THEN 3 ELSE m.bonds[k].order
                       base == SegmentsUpTo(m.bonds, k - 1)
                   IN  /\ \A i \in 0 .. (n - 1) :
                              /\ LinesOf(p)[base + i + 1].atom = m.bonds[k].from
                              /\ LinesOf(p)[base + i + 1].other = m.bonds[k].to
                              /\ LinesOf(p)[base + i + 1].k = 2 * i - (n - 1)
                              /\ LinesOf(p)[base + i + 1].ang = gap(k)
                              \* symmetric: the mirrored segment is drawn too
                              /\ LinesOf(p)[base + (n - 1 - i) + 1].k = -(2 * i - (n - 1))

\* C14 (as amended): every bond with integer order k >= 1 is drawn as
\* exactly min(k, 3) segments, offset from the centerline by (i - (n-1)/2)
\* perpendicular steps, i = 0..n-1, symmetric about it; the step is the
\* spacing 3 when the bond's two atoms are at different positions and 0 when
\* they are at one position (all its segments then coincide).
C14_ClampedSymmetricSegments ==
    (passes > 0 /\ Completed(pass)) =>
        SegmentsAre(pass, LAMBDA k :
            IF pass.layout.norm.num[pass.molecule.bonds[k].from]
                   = pass.layout.norm.num[pass.molecule.bonds[k].to]
            THEN 0 ELSE 3)

\* C14, reached: a bond of order 4 between atoms at different positions was
\* drawn as three segments, offsets -1, 0 and 1 steps of length 3
C14_OrderFourDrawn ==
    /\ passes > 0
    /\ Completed(pass)
    /\ Len(pass.molecule.bonds) = 1
    /\ pass.molecule.bonds[1].order = 4
    /\ Len(LinesOf(pass)) = 3
    /\ [i \in 1 .. 3 |-> <<LinesOf(pass)[i].k, LinesOf(pass)[i].ang>>]
           = <<<<-2, 3>>, <<0, 3>>, <<2, 3>>>>

\* C14 as the specification words it: the offsets are (i - (n-1)/2) times the
\* spacing for every bond of order >= 1
C14_FixedSpacingEverywhere ==
    (passes > 0 /\ Completed(pass)) => SegmentsAre(pass, LAMBDA k : 3)

RECURSIVE Reach(_, _)
\* the atoms joined to an atom of S by a chain of bonds of m
Reach(m, S) ==
    LET next == S \cup {j \in AtomIdx(m) : \E k \in 1 .. Len(m.bonds) :
                           \/ m.bonds[k].from \in S /\ m.bonds[k].to = j
                           \/ m.bonds[k].to \in S /\ m.bonds[k].from = j}
    IN  IF next = S THEN S ELSE Reach(m, next)

\* every atom of m is joined to atom 0 by a chain of bonds
Connected(m) == Reach(m, {0}) = AtomIdx(m)

\* C15: in a pass laid out by the VSEPR fallback on a connected molecule, no
\* two distinct atoms are assigned the same position.
C15_NoSharedPosition ==
    (passes > 0 /\ Completed(pass) /\ pass.layout.mode = "vsepr"
                /\ Connected(pass.molecule)) =>
        \A i, j \in AtomIdx(pass.molecule) :
            i # j => pass.layout.raw[i] # pass.layout.raw[j]

\* C15, reached: ethanol laid out by the VSEPR fallback; the hydrogen placed
\* at the methyl carbon's second angle and the hydroxyl hydrogen are both at
\* (35, -35), and their labels are drawn at one point of the canvas
C15_EthanolHydrogensCoincide ==
    /\ passes > 0
    /\ pass.molecule = Ethanol
    /\ Completed(pass)
    /\ pass.layout.mode = "vsepr"
    /\ Connected(pass.molecule)
    /\ pass.layout.startAtom = 0
    /\ pass.layout.raw[6] = pass.layout.raw[8]
    /\ pass.layout.raw[6].x = 1000 * bondLength
    /\ pass.layout.raw[6].y = -1000 * bondLength
    /\ pass.layout.norm.num[6] = pass.layout.norm.num[8]

\* the places, in the order of a pass's canvas calls, of the calls that are A
Places(p, A(_)) == {c \in 1 .. Len(p.calls) : A(p.calls[c])}

IsLine(c) == c.op = "line"

IsDot(c) == c.op = "dot"

IsLabel(c) == c.op \in {"disc", "text"}

\* C16 (as amended): within one pass every atom gets one background disc and
\* then one element symbol; every label call comes after every bond segment
\* of the molecule and after the lone-pair dots of its own atom and of every
\* atom of lower index, and before the dots of every atom of higher index.
C16_LabelAfterBondsAndOwnDots ==
    (passes > 0 /\ Completed(pass)) =>
        /\ \A i \in AtomIdx(pass.molecule) :
               \E d, t \in Places(pass, IsLabel) :
                   /\ d < t
                   /\ pass.calls[d].op = "disc"
                   /\ pass.calls[t].op = "text"
                   /\ {c \in Places(pass, IsLabel) : pass.calls[c].atom = i} = {d, t}
        /\ \A b \in Places(pass, IsLine), l \in Places(pass, IsLabel) : b < l
        /\ \A d \in Places(pass, IsDot), l \in Places(pass, IsLabel) :
               (d < l) <=> (pass.calls[d].atom <= pass.calls[l].atom)

\* C16, reached: carbon dioxide (O, C, O) drawn; its four bond segments come
\* before every label, and the dots of the last O come after the labels of
\* the first O and of C
C16_LaterDotsOverEarlierLabels ==
    /\ passes > 0
    /\ pass.molecule = CarbonDioxide
    /\ Completed(pass)
    /\ Cardinality(Places(pass, IsLine)) = 4
    /\ Cardinality(Places(pass, IsLabel)) = 6
    /\ \E d \in Places(pass, IsDot) :
           /\ pass.calls[d].atom = 2
           /\ \A l \in Places(pass, IsLabel) :
                  pass.calls[l].atom \in {0, 1} => l < d
    /\ \A b \in Places(pass, IsLine), l \in Places(pass, IsLabel) : b < l

\* C16 as the specification words it: no bond segment and no lone-pair dot
\* is drawn after any label
C16_LabelsAfterEveryDot ==
    (passes > 0 /\ Completed(pass)) =>
        \A c \in Places(pass, IsLine) \cup Places(pass, IsDot),
           l \in Places(pass, IsLabel) : c < l

\* the angles of the dot-pairs a pass drew at atom i, in drawing order
PairAngles(p, i) == [k \in 1 .. (Len(DotsOf(p, i)) \div 2) |-> DotsOf(p, i)[2 * k - 1][3]]

\* the dots at atom i come in pairs: lone pair k - 1 on side 1, then on
\* side -1, at one angle
WellPaired(p, i) ==
    /\ Len(DotsOf(p, i)) % 2 = 0
    /\ \A k \in 1 .. (Len(DotsOf(p, i)) \div 2) :
           /\ DotsOf(p, i)[2 * k - 1] = <<k - 1, 1, PairAngles(p, i)[k]>>
           /\ DotsOf(p, i)[2 * k] = <<k - 1, -1, PairAngles(p, i)[k]>>

\* the j-th of n candidate angles, j = 0 .. n - 1
CandidateAngle(n, j) == -90000 + (j * 360000) \div n

\* the candidate indices of atom i whose angle is at least 45 degrees, less
\* slack thousandths of a degree, from every bond direction of the atom
\* (slack may be negative)
ClearOfBonds(p, i, slack) ==
    {j \in 0 .. (p.atomInfo[i].totalDomains - 1) :
        \A u \in 1 .. Len(p.bondAngles[i]) :
            AngleDiff(CandidateAngle(p.atomInfo[i].totalDomains, j), p.bondAngles[i][u])
                >= 45000 - slack}

\* the dot-pairs at atom i are at candidate angles clear of the bonds, in
\* allocation order, none skipped, min(L, U) of them; a candidate whose
\* distance from a bond is within rounding (0.05 degree) of 45 degrees may
\* count as clear or not
DotPairsAsAllocated(p, i) ==
    LET n      == p.atomInfo[i].totalDomains
        L      == p.atomInfo[i].lonePairs
        A      == PairAngles(p, i)
        idx(k) == CHOOSE j \in 0 .. (n - 1) : CandidateAngle(n, j) = A[k]
        drawn  == {idx(k) : k \in 1 .. Len(A)}
    IN  /\ WellPaired(p, i)
        /\ \A k \in 1 .. Len(A) : \E j \in ClearOfBonds(p, i, 50) : CandidateAngle(n, j) = A[k]
        /\ \A k \in 1 .. (Len(A) - 1) : idx(k) < idx(k + 1)
        /\ Len(A) <= L
        /\ \A j \in ClearOfBonds(p, i, -50) :
               (Len(A) < L \/ (Len(A) > 0 /\ j < idx(Len(A)))) => j \in drawn
        /\ (ClearOfBonds(p, i, 50) = ClearOfBonds(p, i, -50)) =>
               /\ Len(A) = Min2(L, Cardinality(ClearOfBonds(p, i, 0)))
               /\ \A j \in ClearOfBonds(p, i, 0) :
                      (\E d \in drawn : j < d) => j \in drawn

\* C17: no dot-pair is drawn at a C or H atom; at any other atom with L > 0
\* lone pairs the dot-pairs drawn are min(L, U) in number, U the number of
\* the atom's totalDomains candidate angles not within 45 degrees of any of
\* its bond directions, at the first such angles in allocation order, so
\* every dot-pair is at least 45 degrees from every bond of the atom; an atom
\* without lone pairs has no dots; a single bond-less F gets exactly three
\* dot-pairs, at -90, 30 and 150 degrees.
C17_LonePairDots ==
    (passes > 0 /\ Completed(pass)) =>
        /\ \A i \in AtomIdx(pass.molecule) :
               IF pass.molecule.atoms[i + 1] \in {"C", "H"} \/ pass.atomInfo[i].lonePairs <= 0
               THEN DotsOf(pass, i) = <<>>
               ELSE DotPairsAsAllocated(pass, i)
        /\ pass.molecule = Fluorine => PairAngles(pass, 0) = <<-90000, 30000, 150000>>

\* C17, reached: an atom other than C and H with a bond and lone pairs; the
\* first candidate angle is within 45 degrees of the bond and is skipped, and
\* the dot-pairs, as many as the lone pairs, are at the next angles
C17_BlockedAngleSkipped ==
    /\ passes > 0
    /\ Completed(pass)
    /\ \E i \in AtomIdx(pass.molecule) :
           /\ pass.molecule.atoms[i + 1] \notin {"C", "H"}
           /\ pass.bondAngles[i] # <<>>
           /\ 0 \notin ClearOfBonds(pass, i, 50)
           /\ pass.atomInfo[i].lonePairs > 0
           /\ Len(PairAngles(pass, i)) = pass.atomInfo[i].lonePairs
           /\ PairAngles(pass, i)[1] = CandidateAngle(pass.atomInfo[i].totalDomains, 1)

\* a bond of m joins atoms i and j
Bonded(m, i, j) == \E k \in 1 .. Len(m.bonds) : {m.bonds[k].from, m.bonds[k].to} = {i, j}

\* the places in the given list of step s where atom a received a slot
GivenAt(lay, s, a) == {g \in 1 .. Len(lay.steps[s].given) : lay.steps[s].given[g][1] = a}

\* the iterations of the traversal in which atom a received a slot
DiscoverySteps(lay, a) == {s \in 1 .. Len(lay.steps) : GivenAt(lay, s, a) # {}}

\* atom a is where its discoverer put it: one bond length from the
\* discoverer's position along the candidate angle of the slot it got (the
\* last one, when the discoverer's neighbour list names it more than once)
AtSlotOfDiscoverer(m, lay, a) ==
    LET s   == SetMin(DiscoverySteps(lay, a))
        cur == lay.steps[s].current
        ang == lay.steps[s].optimalAngles[lay.steps[s].given[SetMax(GivenAt(lay, s, a))][2] + 1]
        dx  == lay.raw[a].x - lay.raw[cur].x
        dy  == lay.raw[a].y - lay.raw[cur].y
    IN  /\ DiscoverySteps(lay, a) = {s}
        /\ Bonded(m, cur, a)
        /\ dx = Cos(ang) * bondLength
        /\ dy = Sin(ang) * bondLength
        /\ dx * dx + dy * dy >= 34990 * 34990
        /\ dx * dx + dy * dy <= 35010 * 35010

\* C18: after computeVSEPRPositions the atoms placed by the traversal are
\* exactly those joined to the seed by bonds; each of them other than the
\* seed is one bond length (35) from the atom that discovered it, along one
\* of that atom's candidate angles; every neighbour of a dequeued atom has a
\* slot by the end of that iteration; and every atom not joined to the seed
\* is at the origin.
C18_OneBondFromDiscoverer ==
    (passes > 0 /\ Completed(pass) /\ pass.layout.mode = "vsepr") =>
        LET lay  == pass.layout
            m    == pass.molecule
            seed == lay.startAtom
        IN  /\ lay.placed = Reach(m, {seed})
            /\ \A a \in AtomIdx(m) \ lay.placed : lay.raw[a] = Point(0, 0)
            /\ \A a \in lay.placed \ {seed} : AtSlotOfDiscoverer(m, lay, a)
            /\ \A s \in 1 .. Len(lay.steps) :
                   \A n \in AtomIdx(m) :
                       Bonded(m, lay.steps[s].current, n) =>
                           \/ n = seed
                           \/ \E t \in 1 .. s : GivenAt(lay, t, n) # {}

\* C18, reached: three atoms, the third discovered by an atom other than
\* the seed and placed one bond length from it, away from the seed
C18_SecondLevelPlaced ==
    /\ passes > 0
    /\ pass.molecule \in Triples
    /\ Completed(pass)
    /\ pass.layout.mode = "vsepr"
    /\ pass.layout.placed = {0, 1, 2}
    /\ \E a \in {0, 1, 2} :
           /\ DiscoverySteps(pass.layout, a) = {2}
           /\ pass.layout.steps[2].current # pass.layout.startAtom
           /\ AtSlotOfDiscoverer(pass.molecule, pass.layout, a)
           /\ pass.layout.raw[a] # pass.layout.raw[pass.layout.startAtom]

\* the neighbour count of atom i: the number of bond ends at it
Degree(m, i) ==
    Cardinality({k \in 1 .. Len(m.bonds) : m.bonds[k].from = i})
        + Cardinality({k \in 1 .. Len(m.bonds) : m.bonds[k].to = i})

\* the atoms of m that are not hydrogen
Heavy(m) == {i \in AtomIdx(m) : m.atoms[i + 1] # "H"}

\* C19: in a VSEPR layout the seed is the lowest-index atom among the
\* non-hydrogen atoms with the largest neighbour count, atom 0 when the
\* molecule has no non-hydrogen atom, and the seed is at the origin (0, 0).
C19_SeedSelection ==
    (passes > 0 /\ Completed(pass) /\ pass.layout.mode = "vsepr") =>
        LET m    == pass.molecule
            seed == pass.layout.startAtom
        IN  /\ IF Heavy(m) = {} THEN seed = 0
               ELSE seed = SetMin({i \in Heavy(m) :
                                     \A j \in Heavy(m) : Degree(m, j) <= Degree(m, i)})
            /\ pass.layout.raw[seed] = Point(0, 0)
            /\ pass.layout.steps[1].current = seed

\* C19, reached: atom 0 is a hydrogen with more neighbours than any other
\* atom, two non-hydrogen atoms tie, and the first of them is the seed
C19_FirstOfTiedHeavyAtoms ==
    /\ passes > 0
    /\ Completed(pass)
    /\ pass.layout.mode = "vsepr"
    /\ pass.molecule.atoms[1] = "H"
    /\ pass.layout.startAtom = 1
    /\ Degree(pass.molecule, 0) > Degree(pass.molecule, 1)
    /\ 2 \in Heavy(pass.molecule)
    /\ Degree(pass.molecule, 2) = Degree(pass.molecule, 1)
    /\ pass.layout.raw[1] = Point(0, 0)

\* no two bonds of m join the same pair of atoms
NoDuplicatePair(m) ==
    \A k, l \in 1 .. Len(m.bonds) :
        k # l => {m.bonds[k].from, m.bonds[k].to} # {m.bonds[l].from, m.bonds[l].to}

\* in the traversal so far every atom was dequeued at most once, enqueued at
\* most once (the seed before the loop, any other atom with its slot), and
\* is in the queue only while not yet dequeued
OnceEach(m, st, seed) ==
    \A a \in AtomIdx(m) :
        /\ Cardinality({s \in 1 .. Len(st.steps) : st.steps[s].current = a}) <= 1
        /\ Cardinality({q \in 1 .. Len(st.queue) : st.queue[q] = a})
             + Cardinality({s \in 1 .. Len(st.steps) : st.steps[s].current = a})
             = (IF a = seed THEN 1 ELSE 0)
                 + Cardinality({sg \in (1 .. Len(st.steps)) \X (1 .. NumAtoms(m)) :
                                    sg[2] \in GivenAt(st, sg[1], a)})
        /\ (IF a = seed THEN 1 ELSE 0)
             + Cardinality({sg \in (1 .. Len(st.steps)) \X (1 .. NumAtoms(m)) :
                                sg[2] \in GivenAt(st, sg[1], a)}) <= 1

\* what every iteration makes smaller: the atoms not yet visited, then the
\* queue's length (which stays below the number of bond ends plus two)
Variant(m, st) ==
    Cardinality(AtomIdx(m) \ st.visited) * (2 * Len(m.bonds) + 2) + Len(st.queue)

\* C20: the while loop of computeVSEPRPositions terminates on every
\* molecule, rings included: every iteration lowers a measure that is never
\* negative, the loop is never left with a nonempty queue, the iterations
\* number at most one plus the bond ends, and what is returned is the
\* positions of the whole call; when no two bonds join the same pair of atoms
\* every atom is enqueued and dequeued at most once and a position, once
\* assigned, is never assigned again.
C20_TerminatesPlacingOnce ==
    /\ [][~traversal.returned =>
              \/ /\ traversal.st.queue # <<>>
                 /\ Len(traversal'.st.steps) = Len(traversal.st.steps) + 1
                 /\ Variant(molecule, traversal'.st) < Variant(molecule, traversal.st)
              \/ /\ traversal.st.queue = <<>>
                 /\ traversal'.returned]_vars
    /\ [](/\ Len(traversal.st.queue) < 2 * Len(molecule.bonds) + 2
          /\ Len(traversal.st.steps) <= 2 * Len(molecule.bonds) + 1
          /\ Len(traversal.st.steps) + Len(traversal.st.queue) <= MaxSteps)
    /\ [](traversal.returned =>
              traversal.st.positions
                  = computeVSEPRPositions(molecule, Neighbors(molecule),
                        AtomInfo(molecule, Neighbors(molecule))).positions)
    /\ [](NoDuplicatePair(molecule) =>
              OnceEach(molecule, traversal.st, StartAtom(molecule, Neighbors(molecule))))
    /\ [][NoDuplicatePair(molecule) =>
              \A a \in AtomIdx(molecule) :
                  ~traversal.st.positions[a].isNull =>
                      traversal'.st.positions[a] = traversal.st.positions[a]]_vars

\* C20, reached: the traversal of a three-ring has returned after three
\* iterations with all three atoms placed
C20_RingTraversed ==
    /\ traversal.returned
    /\ molecule \in Triples
    /\ {{molecule.bonds[k].from, molecule.bonds[k].to} : k \in 1 .. Len(molecule.bonds)}
           = {{0, 1}, {1, 2}, {0, 2}}
    /\ NoDuplicatePair(molecule)
    /\ Len(traversal.st.steps) = 3
    /\ {traversal.st.steps[s].current : s \in 1 .. 3} = {0, 1, 2}
    /\ traversal.st.visited = {0, 1, 2}

\* the candidate-angle indices one iteration handed out: those reserved for
\* the placed neighbours, then those given to the newly placed ones
SlotsOf(step) == step.reserved \o [g \in 1 .. Len(step.given) |-> step.given[g][2]]

\* C21: in every iteration of the loop of computeVSEPRPositions the indices
\* reserved for the atom's already-placed neighbours and the indices given to
\* its newly placed neighbours are pairwise distinct indices of its candidate
\* angles, one per entry of its neighbour list.
C21_SlotsPairwiseDistinct ==
    \A s \in 1 .. Len(traversal.st.steps) :
        LET step  == traversal.st.steps[s]
            slots == SlotsOf(step)
        IN  /\ \A k, l \in 1 .. Len(slots) : k # l => slots[k] # slots[l]
            /\ \A k \in 1 .. Len(slots) : slots[k] \in 0 .. (step.angles - 1)
            /\ Len(slots) = Len(Neighbors(molecule)[step.current])

\* C21, reached: an atom with a placed neighbour and at least two new ones;
\* the reserved index lies between two of the indices given out
C21_ReservedBetweenGiven ==
    \E s \in 1 .. Len(traversal.st.steps) :
        LET step == traversal.st.steps[s]
        IN  /\ Len(step.reserved) = 1
            /\ Len(step.given) >= 2
            /\ \E g, h \in 1 .. Len(step.given) :
                   step.given[g][2] < step.reserved[1] /\ step.reserved[1] < step.given[h][2]

\* C22: whenever at least one loadMolecule request is still in flight the
\* loading indicator is visible; it is hidden only when none is in flight.
C22_LoadingWhileInFlight == InFlight # {} => loading

\* C22, reached: two requests were in flight together, one of them has
\* completed and hidden the indicator, the other is still in flight
C22_HiddenWhileLoadPending ==
    /\ ~loading
    /\ \E k \in InFlight :
           \E j \in 1 .. Len(status) :
               /\ j # k
               /\ status[j] \in {"resolved", "rejected"}
               /\ \/ j \in pendingAtIssue[k]
                  \/ k \in pendingAtIssue[j]

\* C23: once the suggestion list has been cleared because the search text
\* became shorter than 2 characters or a search was submitted, no suggestion
\* list is visible until a new input event occurs.
C23_NoSuggestionsAfterClear == search.cleared => ~search.visible

\* C23, reached: the text was emptied after a request had gone out; nothing
\* was submitted and no input came after, and suggestions are visible
C23_ShownAfterTextEmptied ==
    /\ search.cleared
    /\ search.text = ""
    /\ issued = <<>>
    /\ search.visible
    /\ search.results # <<>>

====
